---- MODULE Spec2Model ----
(***************************************************************************)
(* Model of the Fasttrack Drop Taxi backend (src/backend.js): an Express   *)
(* server with four POST routes that normalise a phone number, forward     *)
(* the request to Twilio or to the Google Routes API, and reshape the      *)
(* provider's reply.                                                       *)
(*                                                                         *)
(* Strings are sequences of one-character strings.  A JavaScript value is  *)
(* a record tagged with its type in field t.  Every request is a record    *)
(* holding the handler's local variables, the outbound calls it made and   *)
(* the responses it sent; a handler runs from the arrival of the request   *)
(* to its first await in one step and is resumed when the awaited promise  *)
(* settles.                                                                *)
(***************************************************************************)
EXTENDS Integers, Sequences, FiniteSets, TLC

VARIABLES requests

vars == <<requests>>

(***************************************************************************)
(* JavaScript values                                                       *)
(***************************************************************************)
Undefined == [t |-> "undefined"]

Null == [t |-> "null"]

Str(s) == [t |-> "string", s |-> s]

Num(n) == [t |-> "number", n |-> n]

\* The value a throwing call is modelled to yield: number.replace on a
\* non-string, total.toFixed on a non-number.
TypeError == [t |-> "TypeError"]

\* ToBoolean, as used by !x and x || y.
Truthy(v) ==
    CASE v.t = "string" -> v.s # <<>>
      [] v.t = "number" -> v.n # 0
      [] v.t \in {"object", "array"} -> TRUE
      [] OTHER -> FALSE

Digits == {"0", "1", "2", "3", "4", "5", "6", "7", "8", "9"}

\* The characters /[^\d+]/ does not match, i.e. the ones replace() keeps.
KeptByRegex(c) == c \in Digits \/ c = "+"

startsWith(s, prefix) ==
    /\ Len(s) >= Len(prefix)
    /\ SubSeq(s, 1, Len(prefix)) = prefix

(***************************************************************************)
(* formatPhoneNumberForTwilio                                              *)
(***************************************************************************)
\* formatPhoneNumberForTwilio testing for null and undefined only, so that
\* the empty string is normalized to "+91": a fault C4 detects.
formatPhoneNumberNullOnly(number) ==
    IF number \in {Undefined, Null} THEN Null
    ELSE IF number.t # "string" THEN TypeError
    ELSE LET cleanedNumber == SelectSeq(number.s, KeptByRegex)
         IN  IF ~startsWith(cleanedNumber, <<"+">>)
             THEN Str(<<"+", "9", "1">> \o cleanedNumber)
             ELSE Str(cleanedNumber)

\* formatPhoneNumberForTwilio prepending +91 whether or not the cleaned
\* number starts with '+': a fault C16 detects.
formatPhoneNumberAlwaysPrefix(number) ==
    IF ~Truthy(number) THEN Null
    ELSE IF number.t # "string" THEN TypeError
    ELSE Str(<<"+", "9", "1">> \o SelectSeq(number.s, KeptByRegex))

formatPhoneNumberForTwilio(number) ==
    IF ~Truthy(number) THEN Null
    ELSE IF number.t # "string" THEN TypeError
    ELSE LET cleanedNumber == SelectSeq(number.s, KeptByRegex)
         IN  IF ~startsWith(cleanedNumber, <<"+">>)
             THEN Str(<<"+", "9", "1">> \o cleanedNumber)
             ELSE Str(cleanedNumber)

(***************************************************************************)
(* Process configuration: both are checked non-empty at startup, and the   *)
(* process exits otherwise.                                                *)
(***************************************************************************)
TWILIO_VERIFY_SERVICE_SID == "VA_service"

TWILIO_PHONE_NUMBER == Str(<<"+", "1", "5">>)

(***************************************************************************)
(* Requests                                                                *)
(***************************************************************************)
\* A request as the handler first sees it.
NewRequest(route, body) ==
    [route |-> route, body |-> body, pc |-> "start", phoneNumber |-> Undefined,
     messageBody |-> <<>>, googleResponse |-> Undefined, settled |-> <<>>,
     calls |-> <<>>, responses |-> <<>>]

\* res.status(status).json(body): the handler's run ends with it.
Respond(r, status, body) ==
    [r EXCEPT !.pc = "done",
              !.responses = Append(@, [status |-> status, body |-> body])]

\* An outbound call; the handler is suspended until its promise settles.
Await(r, call) ==
    [r EXCEPT !.pc = "await", !.calls = Append(@, call)]

\* The handler resumes with the value or the error its awaited promise
\* settled to.
Resumed(r, outcome) == [r EXCEPT !.settled = Append(@, outcome)]

\* An exception that escapes the async handler: Express 4 does not observe
\* the rejected promise, so no response is sent.
Rejected(r) == [r EXCEPT !.pc = "rejected"]

\* The catch blocks of the two OTP handlers.
errorMessageForClient(default, error) ==
    IF error.status # 0 /\ error.message # ""
    THEN "Twilio API Error (" \o ToString(error.status) \o "): " \o error.message
    ELSE IF error.isError THEN "Server Error: " \o error.message
    ELSE default

(***************************************************************************)
(* POST /api/send-otp                                                      *)
(***************************************************************************)
\* SendOtpStart handing the raw phoneNumber to the provider: a fault C5
\* detects.
SendOtpStartRawNumber(r) ==
    LET phoneNumber == formatPhoneNumberForTwilio(r.body.phoneNumber)
    IN  IF phoneNumber = TypeError THEN Rejected(r)
        ELSE IF ~Truthy(phoneNumber)
        THEN Respond([r EXCEPT !.phoneNumber = phoneNumber], 400,
                     [message |-> "Phone number is required and must be valid."])
        ELSE Await([r EXCEPT !.phoneNumber = phoneNumber],
                   [op |-> "verifications.create",
                    service |-> TWILIO_VERIFY_SERVICE_SID,
                    to |-> r.body.phoneNumber, channel |-> "sms"])

SendOtpStart(r) ==
    LET phoneNumber == formatPhoneNumberForTwilio(r.body.phoneNumber)
    IN  IF phoneNumber = TypeError THEN Rejected(r)
        ELSE IF ~Truthy(phoneNumber)
        THEN Respond([r EXCEPT !.phoneNumber = phoneNumber], 400,
                     [message |-> "Phone number is required and must be valid."])
        ELSE Await([r EXCEPT !.phoneNumber = phoneNumber],
                   [op |-> "verifications.create",
                    service |-> TWILIO_VERIFY_SERVICE_SID,
                    to |-> phoneNumber, channel |-> "sms"])

\* SendOtpSettled calling the provider once more after a failure: a fault
\* C14 detects.
SendOtpSettledRetrying(r, outcome) ==
    IF outcome.ok
    THEN Respond(r, 200, [message |-> "OTP sent successfully!",
                          sid |-> outcome.value.sid])
    ELSE IF Len(r.calls) < 2 THEN Await(r, r.calls[1])
    ELSE Respond(r, 500,
                 [message |-> errorMessageForClient(
                      "Failed to send OTP. Please try again.", outcome.error)])

SendOtpSettled(r, outcome) ==
    IF outcome.ok
    THEN Respond(r, 200, [message |-> "OTP sent successfully!",
                          sid |-> outcome.value.sid])
    ELSE Respond(r, 500,
                 [message |-> errorMessageForClient(
                      "Failed to send OTP. Please try again.", outcome.error)])

SendOtp(body) ==
    requests' = Append(requests, SendOtpStart(NewRequest("send-otp", body)))

SendOtpResume(i, outcome) ==
    /\ requests[i].route = "send-otp"
    /\ requests[i].pc = "await"
    /\ requests' = [requests EXCEPT ![i] = SendOtpSettled(Resumed(@, outcome), outcome)]

(***************************************************************************)
(* POST /api/verify-otp                                                    *)
(***************************************************************************)
VerifyOtpStart(r) ==
    LET phoneNumber == formatPhoneNumberForTwilio(r.body.phoneNumber)
        otpCode == r.body.otpCode
    IN  IF phoneNumber = TypeError THEN Rejected(r)
        ELSE IF ~Truthy(phoneNumber) \/ ~Truthy(otpCode)
        THEN Respond([r EXCEPT !.phoneNumber = phoneNumber], 400,
                     [message |-> "Phone number and OTP code are required."])
        ELSE Await([r EXCEPT !.phoneNumber = phoneNumber],
                   [op |-> "verificationChecks.create",
                    service |-> TWILIO_VERIFY_SERVICE_SID,
                    to |-> phoneNumber, code |-> otpCode])

\* VerifyOtpSettled taking any returned status for an approval: a fault C6
\* detects.
VerifyOtpSettledAnyStatus(r, outcome) ==
    IF outcome.ok
    THEN Respond(r, 200, [message |-> "OTP verified successfully!",
                          status |-> "approved"])
    ELSE Respond(r, 500,
                 [message |-> errorMessageForClient(
                      "Verification failed. Please try again.", outcome.error)])

VerifyOtpSettled(r, outcome) ==
    IF outcome.ok
    THEN IF outcome.value.status = "approved"
         THEN Respond(r, 200, [message |-> "OTP verified successfully!",
                               status |-> "approved"])
         ELSE Respond(r, 400, [message |-> "Invalid OTP. Please try again.",
                               status |-> outcome.value.status])
    ELSE Respond(r, 500,
                 [message |-> errorMessageForClient(
                      "Verification failed. Please try again.", outcome.error)])

VerifyOtp(body) ==
    requests' = Append(requests, VerifyOtpStart(NewRequest("verify-otp", body)))

VerifyOtpResume(i, outcome) ==
    /\ requests[i].route = "verify-otp"
    /\ requests[i].pc = "await"
    /\ requests' = [requests EXCEPT ![i] = VerifyOtpSettled(Resumed(@, outcome), outcome)]

(***************************************************************************)
(* POST /api/send-booking-sms: the message body                            *)
(*                                                                         *)
(* The message is a sequence of atoms: a whitespace character, a word of   *)
(* the template's fixed text, or a character of an interpolated value.     *)
(***************************************************************************)
Whitespace == {" ", "\n", "\t"}

IsWhitespace(c) == c \in Whitespace

RECURSIVE NaturalChars(_)
NaturalChars(n) ==
    IF n < 10 THEN <<ToString(n)>>
    ELSE NaturalChars(n \div 10) \o <<ToString(n % 10)>>

\* Number.prototype.toString of an integer.
NumberChars(n) ==
    IF n < 0 THEN <<"-">> \o NaturalChars(0 - n) ELSE NaturalChars(n)

\* ${value} in a template literal.
Interpolate(v) == IF v.t = "number" THEN NumberChars(v.n) ELSE v.s

\* ${value || placeholder}
OrPlaceholder(v, placeholder) ==
    IF Truthy(v) THEN Interpolate(v) ELSE placeholder

NA == <<"N/A">>

AssignedSoon == <<"Assigned", " ", "Soon">>

\* bookingDetails.fareDetails?.total?.toFixed(2): undefined when fareDetails
\* or total is null or undefined, a TypeError when total has no toFixed.
FareTotal(bookingDetails) ==
    LET fareDetails == bookingDetails.fareDetails
    IN  IF fareDetails.t \in {"undefined", "null"} THEN Undefined
        ELSE IF fareDetails.total.t \in {"undefined", "null"} THEN Undefined
        ELSE IF fareDetails.total.t # "number" THEN TypeError
        ELSE Str(NumberChars(fareDetails.total.n) \o <<".", "0", "0">>)

\* The twelve spaces that indent each line of the template literal.
Indent == <<" ", " ", " ", " ", " ", " ", " ", " ", " ", " ", " ", " ">>

\* The eight spaces before the closing backtick.
ClosingIndent == <<" ", " ", " ", " ", " ", " ", " ", " ">>

\* The template literal with its values substituted, before the clean-up.
MessageTemplate(bookingDetails, fare) ==
    <<"\n">> \o Indent
        \o <<"Fasttrack", " ", "Drop", " ", "Taxi", " ", "Booking", " ",
             "Confirmed!", "\n">>
    \o Indent \o <<"ID:", " ">> \o OrPlaceholder(bookingDetails.bookingId, NA)
        \o <<"\n">>
    \o Indent \o <<"From:", " ">> \o OrPlaceholder(bookingDetails.pickup, NA)
        \o <<"\n">>
    \o Indent \o <<"To:", " ">> \o OrPlaceholder(bookingDetails.dropoff, NA)
        \o <<"\n">>
    \o Indent \o <<"Date:", " ">>
        \o OrPlaceholder(bookingDetails.pickupDate, NA) \o <<" ">>
        \o OrPlaceholder(bookingDetails.pickupTime, NA) \o <<"\n">>
    \o Indent \o <<"Fare:", " ", "<rupee>">> \o OrPlaceholder(fare, NA)
        \o <<"\n">>
    \o Indent \o <<"Driver:", " ">>
        \o OrPlaceholder(bookingDetails.driverName, AssignedSoon)
        \o <<" ", "(">> \o OrPlaceholder(bookingDetails.driverVehicle, NA)
        \o <<")", "\n">>
    \o Indent \o <<"Download", " ", "App", " ", "for", " ", "updates!", "\n">>
    \o ClosingIndent

\* The length of the longest prefix of s made of whitespace.
RECURSIVE LeadingWhitespace(_)
LeadingWhitespace(s) ==
    IF s = <<>> \/ ~IsWhitespace(Head(s)) THEN 0
    ELSE 1 + LeadingWhitespace(Tail(s))

DropFirst(s, k) == SubSeq(s, k + 1, Len(s))

\* .replace(/^\s*\n|\n\s*$/g, ''): without the m flag ^ is the start of the
\* string and $ its end.  The first alternative takes the leading whitespace
\* up to its last newline; the second takes, in what follows, the first
\* newline after which only whitespace remains.
StripEdgeLines(s) ==
    LET lead == LeadingWhitespace(s)
        newlines == {k \in 1..lead : s[k] = "\n"}
        first == IF newlines = {} THEN 0
                 ELSE CHOOSE k \in newlines : \A j \in newlines : j <= k
        rest == DropFirst(s, first)
        tails == {k \in 1..Len(rest) :
                     /\ rest[k] = "\n"
                     /\ \A j \in k..Len(rest) : IsWhitespace(rest[j])}
    IN  IF tails = {} THEN rest
        ELSE SubSeq(rest, 1, (CHOOSE k \in tails : \A j \in tails : k <= j) - 1)

\* .replace(/\s+/, ' '), the g flag forgotten, so that only the first run of
\* whitespace is replaced: a fault C10 detects.
RECURSIVE CollapseFirstRun(_)
CollapseFirstRun(s) ==
    IF s = <<>> THEN <<>>
    ELSE IF IsWhitespace(Head(s))
    THEN <<" ">> \o DropFirst(s, LeadingWhitespace(s))
    ELSE <<Head(s)>> \o CollapseFirstRun(Tail(s))

\* .replace(/\s+/g, ' ')
RECURSIVE CollapseWhitespace(_)
CollapseWhitespace(s) ==
    IF s = <<>> THEN <<>>
    ELSE IF IsWhitespace(Head(s))
    THEN <<" ">> \o CollapseWhitespace(DropFirst(s, LeadingWhitespace(s)))
    ELSE <<Head(s)>> \o CollapseWhitespace(Tail(s))

Reverse(s) == [k \in 1..Len(s) |-> s[Len(s) + 1 - k]]

\* String.prototype.trim
trim(s) ==
    LET front == DropFirst(s, LeadingWhitespace(s))
    IN  SubSeq(front, 1, Len(front) - LeadingWhitespace(Reverse(front)))

messageBody(bookingDetails) ==
    LET fare == FareTotal(bookingDetails)
    IN  IF fare = TypeError THEN TypeError
        ELSE Str(trim(CollapseWhitespace(StripEdgeLines(
                 MessageTemplate(bookingDetails, fare)))))

(***************************************************************************)
(* POST /api/send-booking-sms                                              *)
(***************************************************************************)
\* The catch block: a TypeError carries no status.
BookingErrorMessage(error) ==
    IF error.status # 0 /\ error.message # ""
    THEN "Twilio API Error (" \o ToString(error.status) \o "): " \o error.message
    ELSE "Failed to send booking confirmation SMS."

ThrownTypeError == [isError |-> TRUE, status |-> 0, message |-> "TypeError"]

SendBookingSmsStart(r) ==
    LET phoneNumber == r.body.phoneNumber
        bookingDetails == r.body.bookingDetails
        body == messageBody(bookingDetails)
        formattedPhoneNumber == formatPhoneNumberForTwilio(phoneNumber)
        caught == Respond(r, 500,
                          [message |-> BookingErrorMessage(ThrownTypeError)])
    IN  IF ~Truthy(phoneNumber) \/ ~Truthy(bookingDetails)
        THEN Respond(r, 400,
                 [message |-> "Phone number and booking details are required."])
        ELSE IF body = TypeError THEN caught
        ELSE IF formattedPhoneNumber = TypeError
        THEN [caught EXCEPT !.messageBody = body.s]
        ELSE IF ~Truthy(formattedPhoneNumber)
        THEN Respond([r EXCEPT !.messageBody = body.s,
                               !.phoneNumber = formattedPhoneNumber], 400,
                     [message |-> "Invalid phone number format for SMS."])
        ELSE IF ~Truthy(TWILIO_PHONE_NUMBER)
        THEN Respond([r EXCEPT !.messageBody = body.s,
                               !.phoneNumber = formattedPhoneNumber], 500,
                     [message |-> "Server configuration error: Twilio phone number for sending SMS is missing."])
        ELSE Await([r EXCEPT !.messageBody = body.s,
                             !.phoneNumber = formattedPhoneNumber],
                   [op |-> "messages.create", body |-> body.s,
                    to |-> formattedPhoneNumber, from |-> TWILIO_PHONE_NUMBER])

SendBookingSmsSettled(r, outcome) ==
    IF outcome.ok
    THEN Respond(r, 200, [message |-> "Booking confirmation SMS sent."])
    ELSE Respond(r, 500, [message |-> BookingErrorMessage(outcome.error)])

SendBookingSms(body) ==
    requests' = Append(requests,
                       SendBookingSmsStart(NewRequest("send-booking-sms", body)))

SendBookingSmsResume(i, outcome) ==
    /\ requests[i].route = "send-booking-sms"
    /\ requests[i].pc = "await"
    /\ requests' = [requests EXCEPT ![i] = SendBookingSmsSettled(Resumed(@, outcome), outcome)]

(***************************************************************************)
(* POST /api/get-tolls: numbers                                            *)
(*                                                                         *)
(* A JavaScript number is finite, an infinity or NaN.  units and nanos are *)
(* whole numbers; the running total is counted in thousandths of a unit,   *)
(* one decimal digit more than toFixed keeps, so that a total can fall     *)
(* half-way between two cents.  The arithmetic is that of the doubles as   *)
(* long as every nanos value is a multiple of a thousandth that a double   *)
(* holds exactly (125000000, 250000000, 500000000, ...).                   *)
(***************************************************************************)
Fin(v) == [k |-> "fin", v |-> v]

PosInf == [k |-> "inf", v |-> 1]

NegInf == [k |-> "inf", v |-> -1]

NaN == [k |-> "nan", v |-> 0]

isNaN(x) == x.k = "nan"

NANOS_PER_UNIT == 1000000000

FractionDigits == 2

RECURSIVE Pow10(_)
Pow10(n) == IF n = 0 THEN 1 ELSE 10 * Pow10(n - 1)

\* Thousandths in a unit.
Resolution == Pow10(FractionDigits + 1)

Negate(x) == IF x.k = "nan" THEN x ELSE [x EXCEPT !.v = 0 - @]

\* a + b on doubles of the same scale.
Plus(a, b) ==
    CASE a.k = "nan" \/ b.k = "nan" -> NaN
      [] a.k = "inf" /\ b.k = "inf" -> IF a.v = b.v THEN a ELSE NaN
      [] a.k = "inf" -> a
      [] b.k = "inf" -> b
      [] OTHER -> Fin(a.v + b.v)

\* A whole number as thousandths.
Thousandths(x) == IF x.k = "fin" THEN Fin(x.v * Resolution) ELSE x

\* nanos / 1_000_000_000, in thousandths.
NanosToUnits(x) ==
    IF x.k = "fin" THEN Fin(x.v \div (NANOS_PER_UNIT \div Resolution)) ELSE x

RECURSIVE DigitsValue(_)
DigitsValue(s) ==
    IF s = <<>> THEN 0
    ELSE 10 * DigitsValue(SubSeq(s, 1, Len(s) - 1))
         + (CHOOSE d \in 0..9 : ToString(d) = s[Len(s)])

InfinityChars == <<"I", "n", "f", "i", "n", "i", "t", "y">>

IsDigits(s) == s # <<>> /\ \A k \in 1..Len(s) : s[k] \in Digits

\* StringToNumber on the text after its sign.
UnsignedToNumber(s) ==
    IF s = InfinityChars THEN PosInf
    ELSE IF IsDigits(s) THEN Fin(DigitsValue(s))
    ELSE NaN

\* Number(value)
Number(v) ==
    CASE v.t = "undefined" -> NaN
      [] v.t = "null" -> Fin(0)
      [] v.t = "number" -> Fin(v.n)
      [] v.t = "string" ->
            LET s == trim(v.s)
            IN  IF s = <<>> THEN Fin(0)
                ELSE IF Head(s) = "-" THEN Negate(UnsignedToNumber(Tail(s)))
                ELSE IF Head(s) = "+" THEN UnsignedToNumber(Tail(s))
                ELSE UnsignedToNumber(s)
      [] OTHER -> NaN

\* x || 0 on a number: NaN and 0 are falsy.
OrZero(x) == IF x.k = "nan" \/ (x.k = "fin" /\ x.v = 0) THEN Fin(0) ELSE x

\* parseFloat(x.toFixed(2)), in cents: the nearest cent, a tie going away
\* from zero; an infinity prints as "Infinity" and parses back.
toFixed(x) ==
    LET quantum == Resolution \div Pow10(FractionDigits)
        magnitude == IF x.v < 0 THEN 0 - x.v ELSE x.v
        cents == (2 * magnitude + quantum) \div (2 * quantum)
    IN  IF x.k # "fin" THEN x
        ELSE Fin(IF x.v < 0 THEN 0 - cents ELSE cents)

\* JSON.stringify of a number, as res.json sends it: null unless finite.
JsonNumber(x) == IF x.k = "fin" THEN [t |-> "number", cents |-> x.v] ELSE Null

(***************************************************************************)
(* POST /api/get-tolls                                                     *)
(***************************************************************************)
\* AddPrice without the test of currencyCode: a fault C3 detects.
AddPriceAnyCurrency(calculatedToll, price) ==
    LET units == OrZero(Number(price.units))
        nanos == OrZero(Number(price.nanos))
    IN  IF ~isNaN(units) /\ ~isNaN(nanos)
        THEN Plus(calculatedToll, Plus(Thousandths(units), NanosToUnits(nanos)))
        ELSE calculatedToll

\* One step of the forEach over estimatedPrice.
AddPrice(calculatedToll, price) ==
    IF price.currencyCode = "INR"
    THEN LET units == OrZero(Number(price.units))
             nanos == OrZero(Number(price.nanos))
         IN  IF ~isNaN(units) /\ ~isNaN(nanos)
             THEN Plus(calculatedToll,
                       Plus(Thousandths(units), NanosToUnits(nanos)))
             ELSE calculatedToll
    ELSE calculatedToll

RECURSIVE SumPrices(_, _)
SumPrices(calculatedToll, prices) ==
    IF prices = <<>> THEN calculatedToll
    ELSE SumPrices(AddPrice(calculatedToll, Head(prices)), Tail(prices))

\* The total over routes[0].travelAdvisory.tollInfo.estimatedPrice.
calculatedToll(data) ==
    IF Truthy(data.routes) /\ Len(data.routes.items) > 0
    THEN LET firstRoute == data.routes.items[1]
         IN  IF /\ Truthy(firstRoute.travelAdvisory)
                /\ Truthy(firstRoute.travelAdvisory.tollInfo)
                /\ Truthy(firstRoute.travelAdvisory.tollInfo.estimatedPrice)
             THEN SumPrices(Fin(0),
                      firstRoute.travelAdvisory.tollInfo.estimatedPrice.items)
             ELSE Fin(0)
    ELSE Fin(0)

\* The final safeguard, the rounding and the serialisation.
tollAmount(data) ==
    LET total == calculatedToll(data)
        safe == IF isNaN(total) THEN Fin(0) ELSE total
    IN  JsonNumber(toFixed(safe))

googleRequestBody(pickup, dropoff) ==
    [origin |-> [address |-> pickup],
     destination |-> [address |-> dropoff],
     travelMode |-> "DRIVE",
     routingPreference |-> "TRAFFIC_AWARE_OPTIMAL",
     computeAlternativeRoutes |-> FALSE,
     routeModifiers |-> [avoidTolls |-> FALSE, avoidHighways |-> FALSE,
                         tollPasses |-> <<"IN_FASTAG">>],
     extraComputations |-> <<"TOLLS">>]

\* GetTollsStart testing pickup alone: a fault C7 detects.
GetTollsStartPickupOnly(r) ==
    LET pickup == r.body.pickup
        dropoff == r.body.dropoff
    IN  IF ~Truthy(pickup)
        THEN Respond(r, 400,
                 [message |-> "Pickup and dropoff locations are required."])
        ELSE Await(r,
                 [op |-> "fetch",
                  url |-> "https://routes.googleapis.com/directions/v2:computeRoutes",
                  method |-> "POST",
                  fieldMask |-> "routes.duration,routes.distanceMeters,routes.travelAdvisory.tollInfo",
                  body |-> googleRequestBody(pickup, dropoff)])

\* GetTollsStart passing distance and vehicleType on to the routing
\* provider: a fault C11 detects.
GetTollsStartForwardingVehicle(r) ==
    LET pickup == r.body.pickup
        dropoff == r.body.dropoff
    IN  IF ~Truthy(pickup) \/ ~Truthy(dropoff)
        THEN Respond(r, 400,
                 [message |-> "Pickup and dropoff locations are required."])
        ELSE Await(r,
                 [op |-> "fetch",
                  url |-> "https://routes.googleapis.com/directions/v2:computeRoutes",
                  method |-> "POST",
                  fieldMask |-> "routes.duration,routes.distanceMeters,routes.travelAdvisory.tollInfo",
                  body |-> googleRequestBody(pickup, dropoff),
                  distance |-> r.body.distance,
                  vehicleType |-> r.body.vehicleType])

GetTollsStart(r) ==
    LET pickup == r.body.pickup
        dropoff == r.body.dropoff
    IN  IF ~Truthy(pickup) \/ ~Truthy(dropoff)
        THEN Respond(r, 400,
                 [message |-> "Pickup and dropoff locations are required."])
        ELSE Await(r,
                 [op |-> "fetch",
                  url |-> "https://routes.googleapis.com/directions/v2:computeRoutes",
                  method |-> "POST",
                  fieldMask |-> "routes.duration,routes.distanceMeters,routes.travelAdvisory.tollInfo",
                  body |-> googleRequestBody(pickup, dropoff)])

\* The outer catch block.
TollServerError(r, error) ==
    Respond(r, 500,
        [message |-> "Internal server error during toll calculation.",
         details |-> IF error.message # "" THEN error.message
                     ELSE "Unknown error"])

\* fetch settled: on a response of either kind the handler goes on to await
\* googleResponse.json().
GetTollsFetched(r, outcome) ==
    IF outcome.ok
    THEN [r EXCEPT !.pc = "awaitJson", !.googleResponse = outcome.value]
    ELSE TollServerError(r, outcome.error)

\* The details of the forwarded upstream error.
ErrorDetails(errorData) ==
    IF Truthy(errorData.error) THEN errorData.error.message
    ELSE IF Truthy(errorData.message) THEN errorData.message
    ELSE Str(<<"Unknown error from Google API">>)

CouldNotParse ==
    [t |-> "object", error |-> Undefined,
     message |-> Str(<<"Could not parse error response from Google API.">>)]

\* GetTollsParsed answering an upstream error with a fixed 500: a fault C8
\* detects.
GetTollsParsedFixed500(r, outcome) ==
    IF ~r.googleResponse.ok
    THEN LET errorData == IF outcome.ok THEN outcome.value ELSE CouldNotParse
         IN  Respond(r, 500,
                 [message |-> "Error fetching route from Google Maps API",
                  details |-> ErrorDetails(errorData)])
    ELSE IF ~outcome.ok THEN TollServerError(r, outcome.error)
    ELSE Respond(r, 200, [tollAmount |-> tollAmount(outcome.value)])

\* googleResponse.json() settled.
GetTollsParsed(r, outcome) ==
    IF ~r.googleResponse.ok
    THEN LET errorData == IF outcome.ok THEN outcome.value ELSE CouldNotParse
         IN  Respond(r, r.googleResponse.status,
                 [message |-> "Error fetching route from Google Maps API",
                  details |-> ErrorDetails(errorData)])
    ELSE IF ~outcome.ok THEN TollServerError(r, outcome.error)
    ELSE Respond(r, 200, [tollAmount |-> tollAmount(outcome.value)])

GetTolls(body) ==
    requests' = Append(requests, GetTollsStart(NewRequest("get-tolls", body)))

\* GetTollsFetch keeping googleResponse in a variable of the module, which
\* every suspended toll handler then reads: a fault C15 detects.
GetTollsFetchSharedResponse(i, outcome) ==
    /\ requests[i].route = "get-tolls"
    /\ requests[i].pc = "await"
    /\ requests' =
           [j \in DOMAIN requests |->
               IF j = i
               THEN GetTollsFetched(Resumed(requests[i], outcome), outcome)
               ELSE IF /\ outcome.ok
                       /\ requests[j].route = "get-tolls"
                       /\ requests[j].pc = "awaitJson"
               THEN [requests[j] EXCEPT !.googleResponse = outcome.value]
               ELSE requests[j]]

GetTollsFetch(i, outcome) ==
    /\ requests[i].route = "get-tolls"
    /\ requests[i].pc = "await"
    /\ requests' = [requests EXCEPT ![i] = GetTollsFetched(Resumed(@, outcome), outcome)]

GetTollsJson(i, outcome) ==
    /\ requests[i].route = "get-tolls"
    /\ requests[i].pc = "awaitJson"
    /\ requests' = [requests EXCEPT ![i] = GetTollsParsed(Resumed(@, outcome), outcome)]

(***************************************************************************)
(* Inputs                                                                  *)
(***************************************************************************)
MaxRequests == 2

MaxPhoneLen == 4

MaxPrices == 2

\* All strings over an alphabet up to a length.
Strings(alphabet, maxLen) == UNION {[1..n -> alphabet] : n \in 0..maxLen}

NoBody ==
    [phoneNumber |-> Undefined, otpCode |-> Undefined,
     bookingDetails |-> Undefined, pickup |-> Undefined,
     dropoff |-> Undefined, distance |-> Undefined, vehicleType |-> Undefined]

\* Missing, null, empty, punctuated, and not a string.
PhoneNumbers ==
    {Undefined, Null, Str(<<>>), Str(<<"9", "-", "8">>), Num(98)}

\* The same without the two other empty values.
SomePhoneNumbers == {Undefined, Str(<<"+", "1", " ", "2">>), Num(98)}

PhoneAlphabet == {"1", "9", "+", "-"}

\* Every raw phone string up to MaxPhoneLen, and the two empty values.
RawPhoneNumbers ==
    {Undefined, Null} \cup {Str(s) : s \in Strings(PhoneAlphabet, MaxPhoneLen)}

OtpCodes == {Undefined, Str(<<"4", "2">>)}

NoDetails ==
    [t |-> "object", bookingId |-> Undefined, pickup |-> Undefined,
     dropoff |-> Undefined, pickupDate |-> Undefined, pickupTime |-> Undefined,
     fareDetails |-> Undefined, driverName |-> Undefined,
     driverVehicle |-> Undefined]

FareDetails(total) == [t |-> "object", total |-> total]

FullDetails ==
    [t |-> "object", bookingId |-> Num(42), pickup |-> Str(<<"A">>),
     dropoff |-> Str(<<"B">>), pickupDate |-> Str(<<"1", "/", "2">>),
     pickupTime |-> Str(<<"9", "a", "m">>),
     fareDetails |-> FareDetails(Num(1500)),
     driverName |-> Str(<<"R", "a", "m">>), driverVehicle |-> Str(<<"X">>)]

BookingDetails ==
    {Undefined, NoDetails, FullDetails,
     [NoDetails EXCEPT !.fareDetails = FareDetails(Str(<<"1", "5">>))]}

\* Field values with whitespace inside and around them.
FieldValues ==
    {Undefined, Str(<<"a">>), Str(<<" ", "a", "\n", " ", "b", "\t">>)}

FareValues ==
    {Undefined, FareDetails(Undefined), FareDetails(Num(0)),
     FareDetails(Num(1500))}

\* Every bookingDetails over FieldValues and FareValues.
AllBookingDetails ==
    {[t |-> "object", bookingId |-> f[1], pickup |-> f[2], dropoff |-> f[3],
      pickupDate |-> f[4], pickupTime |-> f[5], fareDetails |-> fare,
      driverName |-> f[6], driverVehicle |-> f[7]] :
        f \in [1..7 -> FieldValues], fare \in FareValues}

\* What a Twilio promise rejects with: a RestException carrying a status,
\* or a plain Error.
TwilioErrors ==
    {[isError |-> TRUE, status |-> 429, message |-> "Too many requests"],
     [isError |-> TRUE, status |-> 0, message |-> "socket hang up"]}

Rejections == {[ok |-> FALSE, error |-> e] : e \in TwilioErrors}

VerificationOutcomes == {[ok |-> TRUE, value |-> [sid |-> "VE1"]]} \cup Rejections

VerificationCheckOutcomes ==
    {[ok |-> TRUE, value |-> [status |-> s]] : s \in {"approved", "pending"}}
    \cup Rejections

MessageOutcomes == {[ok |-> TRUE, value |-> [sid |-> "SM1"]]} \cup Rejections

ValidTollBodies ==
    {[NoBody EXCEPT !.pickup = Str(<<"A">>), !.dropoff = Str(<<"B">>),
                    !.distance = k[1], !.vehicleType = k[2]] :
        k \in {<<Undefined, Undefined>>, <<Num(12), Str(<<"s", "u", "v">>)>>}}

TollBodies ==
    {[NoBody EXCEPT !.pickup = Str(<<"A">>)],
     [NoBody EXCEPT !.dropoff = Str(<<"B">>), !.distance = Num(12)]}
    \cup ValidTollBodies

NetworkError == [isError |-> TRUE, status |-> 0, message |-> "ECONNREFUSED"]

\* fetch rejects, or resolves to a response with a status; ok is status 2xx.
FetchOutcomes ==
    {[ok |-> FALSE, error |-> NetworkError]}
    \cup {[ok |-> TRUE, value |-> [ok |-> s \in 200..299, status |-> s]] :
             s \in {200, 403, 503}}

\* A JSON object of the routing provider: a route reply or an error reply.
Json(routes, error, message) ==
    [t |-> "object", routes |-> routes, error |-> error, message |-> message]

Array(items) == [t |-> "array", items |-> items]

Price(currencyCode, units, nanos) ==
    [currencyCode |-> currencyCode, units |-> units, nanos |-> nanos]

Route(estimatedPrice) ==
    [t |-> "object",
     travelAdvisory |->
         [t |-> "object",
          tollInfo |-> [t |-> "object", estimatedPrice |-> estimatedPrice]]]

RouteWith(prices) == Route(Array(prices))

\* Routes with a part of the path to estimatedPrice missing.
BareRoutes ==
    {[t |-> "object", travelAdvisory |-> Undefined],
     [t |-> "object",
      travelAdvisory |-> [t |-> "object", tollInfo |-> Undefined]],
     Route(Undefined)}

SyntaxError == [isError |-> TRUE, status |-> 0, message |-> "Unexpected token <"]

ParseFailure == [ok |-> FALSE, error |-> SyntaxError]

ErrorReplies ==
    {Json(Undefined, [t |-> "object", message |-> Str(<<"denied">>)], Undefined),
     Json(Undefined, Undefined, Str(<<"quota">>)),
     Json(Undefined, Undefined, Undefined)}

SomePriceLists ==
    {<<Price("INR", Str(<<"2">>), Num(500000000)),
       Price("USD", Str(<<"5">>), Num(0))>>}

\* Replies with routes missing, empty, or lacking a part of the path to
\* estimatedPrice; with one route; and with a second route, which the
\* handler does not read.
RouteReplies(priceLists) ==
    {Json(Undefined, Undefined, Undefined), Json(Array(<<>>), Undefined, Undefined)}
    \cup {Json(Array(<<r>>), Undefined, Undefined) : r \in BareRoutes}
    \cup {Json(Array(<<RouteWith(ps)>>), Undefined, Undefined) : ps \in priceLists}
    \cup {Json(Array(<<RouteWith(ps), RouteWith(qs)>>), Undefined, Undefined) :
             ps \in SomePriceLists \cup {<<>>}, qs \in SomePriceLists}

SomeReplies ==
    {Json(Undefined, [t |-> "object", message |-> Str(<<"denied">>)], Undefined),
     Json(Undefined, Undefined, Undefined)}
    \cup {Json(Array(<<RouteWith(ps)>>), Undefined, Undefined) :
             ps \in SomePriceLists}

Units ==
    {Undefined, Num(-3), Str(<<"2">>), Str(<<"x">>), Str(InfinityChars),
     Str(<<"-">> \o InfinityChars)}

Nanos ==
    {Undefined, Num(125000000), Num(500000000),
     Str(<<"2", "5", "0", "0", "0", "0", "0", "0", "0">>)}

\* Every INR price over Units and Nanos, and prices in another currency.
Prices ==
    {Price("INR", u, n) : u \in Units, n \in Nanos}
    \cup {Price("USD", Str(<<"5">>), Num(500000000)),
          Price("USD", Str(<<"x">>), Undefined)}

AllPriceLists == UNION {[1..n -> Prices] : n \in 0..MaxPrices}

JsonOutcomes(replies) == {ParseFailure} \cup {[ok |-> TRUE, value |-> v] : v \in replies}

(***************************************************************************)
(* The server: requests arrive on the four routes while fewer than max     *)
(* were received, and the awaited promises settle in any order.            *)
(***************************************************************************)
Init == requests = <<>>

\* An awaited promise of a suspended handler settles, and the handler runs
\* on from its await.
Settle(jsonOutcomes) ==
    \/ \E i \in DOMAIN requests :
           /\ requests[i].pc = "await"
           /\ \E o \in VerificationOutcomes : SendOtpResume(i, o)
    \/ \E i \in DOMAIN requests :
           /\ requests[i].pc = "await"
           /\ \E o \in VerificationCheckOutcomes : VerifyOtpResume(i, o)
    \/ \E i \in DOMAIN requests :
           /\ requests[i].pc = "await"
           /\ \E o \in MessageOutcomes : SendBookingSmsResume(i, o)
    \/ \E i \in DOMAIN requests :
           /\ requests[i].pc = "await"
           /\ \E o \in FetchOutcomes : GetTollsFetch(i, o)
    \/ \E i \in DOMAIN requests :
           /\ requests[i].pc = "awaitJson"
           /\ \E o \in jsonOutcomes : GetTollsJson(i, o)

Server(max, otpPhones, phones, details, tollBodies, jsonOutcomes) ==
    \/ /\ Len(requests) < max
       /\ \E p \in otpPhones : SendOtp([NoBody EXCEPT !.phoneNumber = p])
    \/ /\ Len(requests) < max
       /\ \E p \in phones, c \in OtpCodes :
              VerifyOtp([NoBody EXCEPT !.phoneNumber = p, !.otpCode = c])
    \/ /\ Len(requests) < max
       /\ \E p \in phones, d \in details :
              SendBookingSms([NoBody EXCEPT !.phoneNumber = p,
                                            !.bookingDetails = d])
    \/ /\ Len(requests) < max
       /\ \E b \in tollBodies : GetTolls(b)
    \/ Settle(jsonOutcomes)

SomeJsonOutcomes == JsonOutcomes(SomeReplies)

\* Concurrent requests over a few bodies and replies of every kind.
Next ==
    Server(MaxRequests, PhoneNumbers, SomePhoneNumbers, BookingDetails,
           TollBodies, SomeJsonOutcomes)

Spec == Init /\ [][Next]_vars

\* The same server when every awaited promise eventually settles: the
\* providers are assumed to answer or fail, and the event loop then resumes
\* the suspended handler.
SpecFair == Spec /\ WF_vars(Settle(SomeJsonOutcomes))

ManyBookingDetails == BookingDetails \cup AllBookingDetails

AllJsonOutcomes == JsonOutcomes(ErrorReplies \cup RouteReplies(AllPriceLists))

\* One request, over every phone string, booking and price list within the
\* bounds.
NextOne ==
    Server(1, RawPhoneNumbers, SomePhoneNumbers, ManyBookingDetails,
           ValidTollBodies, AllJsonOutcomes)

SpecOne == Init /\ [][NextOne]_vars

(***************************************************************************)
(* Properties                                                              *)
(***************************************************************************)
Requests == {requests[i] : i \in DOMAIN requests}

OnRoute(route) == {r \in Requests : r.route = route}

IsEmptyValue(v) == v \in {Undefined, Null, Str(<<>>)}

\* The digits of a string, in order.
DigitsOf(s) == SelectSeq(s, LAMBDA c : c \in Digits)

\* One leading '+' followed only by digits.
IsPlusDigits(s) ==
    /\ s # <<>>
    /\ Head(s) = "+"
    /\ \A k \in 2..Len(s) : s[k] \in Digits

\* C1: formatPhoneNumberForTwilio returns null for a null or empty input,
\* and otherwise a string that is one leading '+' followed only by digits;
\* when the input has no leading '+' the result is '+91' followed by the
\* input's digits in order.
C1_NormalizedIsPlusDigits ==
    \A r \in OnRoute("send-otp") :
        LET raw == r.body.phoneNumber
            result == formatPhoneNumberForTwilio(raw)
        IN  /\ r.phoneNumber = result
            /\ IF IsEmptyValue(raw) THEN result = Null
               ELSE /\ result.t = "string"
                    /\ IsPlusDigits(result.s)
                    /\ ~startsWith(raw.s, <<"+">>)
                           => result.s = <<"+", "9", "1">> \o DigitsOf(raw.s)

\* The toll requests answered after the routing provider replied with a
\* success status and a body that parsed.
TollsComputed ==
    {r \in OnRoute("get-tolls") :
        /\ r.pc = "done"
        /\ r.googleResponse # Undefined
        /\ r.googleResponse.ok
        /\ r.settled[Len(r.settled)].ok}

\* The parsed body of the routing provider's reply.
DataOf(r) == r.settled[Len(r.settled)].value

HasPrices(data) ==
    /\ data.routes # Undefined
    /\ data.routes.items # <<>>
    /\ data.routes.items[1].travelAdvisory # Undefined
    /\ data.routes.items[1].travelAdvisory.tollInfo # Undefined
    /\ data.routes.items[1].travelAdvisory.tollInfo.estimatedPrice # Undefined

\* routes[0].travelAdvisory.tollInfo.estimatedPrice, empty when absent.
PricesOf(data) ==
    IF HasPrices(data)
    THEN data.routes.items[1].travelAdvisory.tollInfo.estimatedPrice.items
    ELSE <<>>

InrPricesOf(data) == SelectSeq(PricesOf(data), LAMBDA p : p.currencyCode = "INR")

\* A number, or a string that reads as a finite number.
IsNumeric(v) == v.t \in {"number", "string"} /\ Number(v).k = "fin"

\* A value that is present and is not a number.
IsNonNumeric(v) == v.t = "string" /\ Number(v).k = "nan"

\* The whole number a numeric value stands for, 0 for an absent one.
AmountOf(v) == IF IsNumeric(v) THEN Number(v).v ELSE 0

\* units + nanos / 1_000_000_000 of one price, in thousandths.
PriceValue(p) ==
    AmountOf(p.units) * Resolution
    + AmountOf(p.nanos) \div (NANOS_PER_UNIT \div Resolution)

RECURSIVE Sum(_)
Sum(values) == IF values = <<>> THEN 0 ELSE Head(values) + Sum(Tail(values))

SumOf(prices, Value(_)) == Sum([k \in DOMAIN prices |-> Value(prices[k])])

\* cents is total (in thousandths) rounded to 2 decimal places.
IsRounded(cents, total) ==
    LET quantum == Resolution \div Pow10(FractionDigits)
        error == quantum * cents - total
    IN  2 * error <= quantum /\ 2 * error >= 0 - quantum

\* The request was answered once, with status 200 and this tollAmount.
AnsweredToll(r, total) ==
    /\ Len(r.responses) = 1
    /\ r.responses[1].status = 200
    /\ r.responses[1].body.tollAmount.t = "number"
    /\ IsRounded(r.responses[1].body.tollAmount.cents, total)

\* An INR entry whose units is present and non-numeric is skipped whole.
SkippingValue(p) == IF IsNonNumeric(p.units) THEN 0 ELSE PriceValue(p)

\* The INR entries C2 speaks of: units numeric, absent or non-numeric, and
\* nanos numeric or absent.
C2_InScope(data) ==
    \A k \in DOMAIN InrPricesOf(data) :
        LET p == InrPricesOf(data)[k]
        IN  /\ IsNumeric(p.units) \/ p.units = Undefined \/ IsNonNumeric(p.units)
            /\ IsNumeric(p.nanos) \/ p.nanos = Undefined

\* C2: an INR price entry whose units is non-numeric contributes 0 to
\* tollAmount whatever its nanos, while the remaining entries are summed
\* and the response is 200.
C2_NonNumericUnitsSkipped ==
    \A r \in TollsComputed :
        C2_InScope(DataOf(r))
            => AnsweredToll(r, SumOf(InrPricesOf(DataOf(r)), SkippingValue))

\* The INR entries C3 speaks of: units and nanos each numeric or absent.
C3_InScope(data) ==
    \A k \in DOMAIN InrPricesOf(data) :
        LET p == InrPricesOf(data)[k]
        IN  /\ IsNumeric(p.units) \/ p.units = Undefined
            /\ IsNumeric(p.nanos) \/ p.nanos = Undefined

\* C3: on upstream success the response is 200 and tollAmount is the sum of
\* units + nanos / 1_000_000_000 over the INR entries of
\* routes[0].travelAdvisory.tollInfo.estimatedPrice, rounded to 2 decimal
\* places; entries in another currency add nothing, and with routes,
\* travelAdvisory, tollInfo or estimatedPrice absent, or routes empty,
\* tollAmount is 0.  Non-numeric and non-finite entries are the subject of
\* C2 and C13.
C3_TollIsInrSum ==
    \A r \in TollsComputed :
        /\ C3_InScope(DataOf(r))
               => AnsweredToll(r, SumOf(InrPricesOf(DataOf(r)), PriceValue))
        /\ ~HasPrices(DataOf(r))
               => /\ AnsweredToll(r, 0)
                  /\ r.responses[1].body.tollAmount.cents = 0

\* A toll was computed from an INR entry and one in another currency, and
\* the total fell half-way between two cents.
C3_Witness ==
    \E r \in TollsComputed :
        /\ C3_InScope(DataOf(r))
        /\ Len(InrPricesOf(DataOf(r))) = 1
        /\ Len(PricesOf(DataOf(r))) = 2
        /\ SumOf(InrPricesOf(DataOf(r)), PriceValue) % 10 = 5
        /\ r.responses[1].body.tollAmount.cents > 0

\* The request was answered once, with this status.
AnsweredWith(r, status) ==
    /\ r.pc = "done"
    /\ Len(r.responses) = 1
    /\ r.responses[1].status = status

\* C4: a send-OTP request whose phoneNumber is missing, null or empty is
\* answered 400, and create-verification is never called for it.
C4_EmptyPhoneIs400 ==
    \A r \in OnRoute("send-otp") :
        IsEmptyValue(r.body.phoneNumber)
            => AnsweredWith(r, 400) /\ r.calls = <<>>

\* Requests with an empty and with a null phoneNumber were answered.
C4_Witness ==
    /\ \E r \in OnRoute("send-otp") :
           r.body.phoneNumber = Str(<<>>) /\ AnsweredWith(r, 400)
    /\ \E r \in OnRoute("send-otp") :
           r.body.phoneNumber = Null /\ AnsweredWith(r, 400)

\* C5: when the phone number of a send-OTP request normalizes to a non-null
\* value, create-verification is called once, with the normalized number
\* and channel sms; the response is 200 with the provider's sid exactly
\* when that call succeeds, and 500 when it throws.
C5_SendOtpFollowsProvider ==
    \A r \in OnRoute("send-otp") :
        LET normalized == formatPhoneNumberForTwilio(r.body.phoneNumber)
        IN  normalized.t = "string"
                => /\ Len(r.calls) = 1
                   /\ r.calls[1].op = "verifications.create"
                   /\ r.calls[1].to = normalized
                   /\ r.calls[1].channel = "sms"
                   /\ r.pc \in {"await", "done"}
                   /\ r.pc = "await" => r.responses = <<>>
                   /\ r.pc = "done"
                          => IF r.settled[1].ok
                             THEN /\ AnsweredWith(r, 200)
                                  /\ r.responses[1].body.sid
                                         = r.settled[1].value.sid
                             ELSE AnsweredWith(r, 500)

\* One send-OTP was answered after the provider threw while another was
\* answered with the provider's sid.
C5_Witness ==
    /\ \E r \in OnRoute("send-otp") :
           /\ r.settled # <<>>
           /\ ~r.settled[1].ok
           /\ AnsweredWith(r, 500)
    /\ \E r \in OnRoute("send-otp") :
           /\ r.settled # <<>>
           /\ r.settled[1].ok
           /\ AnsweredWith(r, 200)

C7_MissingPlaceIs400 ==
    \A r \in OnRoute("get-tolls") :
        ~Truthy(r.body.pickup) \/ ~Truthy(r.body.dropoff)
            => AnsweredWith(r, 400) /\ r.calls = <<>>

\* A toll request with a pickup and no dropoff was answered.
C7_Witness ==
    \E r \in OnRoute("get-tolls") :
        /\ Truthy(r.body.pickup)
        /\ ~Truthy(r.body.dropoff)
        /\ AnsweredWith(r, 400)

\* The toll requests answered after the routing provider replied with a
\* non-success status.
TollsRefused ==
    {r \in OnRoute("get-tolls") :
        /\ r.pc = "done"
        /\ r.googleResponse # Undefined
        /\ ~r.googleResponse.ok}

\* C8: when the routing provider answers with a non-success status, the
\* response carries that status, whether or not the upstream error body
\* parses, and no tollAmount.
C8_UpstreamStatusForwarded ==
    \A r \in TollsRefused :
        /\ AnsweredWith(r, r.googleResponse.status)
        /\ "tollAmount" \notin DOMAIN r.responses[1].body

\* A 503 whose body did not parse and a 403 whose body did were forwarded.
C8_Witness ==
    /\ \E r \in TollsRefused :
           /\ r.googleResponse.status = 503
           /\ ~r.settled[Len(r.settled)].ok
    /\ \E r \in TollsRefused :
           /\ r.googleResponse.status = 403
           /\ r.settled[Len(r.settled)].ok

\* C9: a booking-SMS request is answered 400 with no provider call when
\* phoneNumber or bookingDetails is missing; when both are present,
\* send-message is called with the built body, the normalized destination
\* and the configured sender, and the response is 200 if the call succeeds
\* and 500 if it throws.
C9_BookingSmsSent ==
    \A r \in OnRoute("send-booking-sms") :
        IF ~Truthy(r.body.phoneNumber) \/ ~Truthy(r.body.bookingDetails)
        THEN AnsweredWith(r, 400) /\ r.calls = <<>>
        ELSE /\ Len(r.calls) = 1
             /\ r.calls[1].op = "messages.create"
             /\ r.calls[1].body = r.messageBody
             /\ r.calls[1].to = formatPhoneNumberForTwilio(r.body.phoneNumber)
             /\ r.calls[1].from = TWILIO_PHONE_NUMBER
             /\ r.pc = "done"
                    => AnsweredWith(r, IF r.settled[1].ok THEN 200 ELSE 500)

Contains(s, part) ==
    \E k \in 0..(Len(s) - Len(part)) : SubSeq(s, k + 1, k + Len(part)) = part

\* The message with every optional field absent.
PlaceholderMessage ==
    <<"Fasttrack", " ", "Drop", " ", "Taxi", " ", "Booking", " ", "Confirmed!",
      " ", "ID:", " ", "N/A", " ", "From:", " ", "N/A", " ", "To:", " ", "N/A",
      " ", "Date:", " ", "N/A", " ", "N/A", " ", "Fare:", " ", "<rupee>", "N/A",
      " ", "Driver:", " ", "Assigned", " ", "Soon", " ", "(", "N/A", ")", " ",
      "Download", " ", "App", " ", "for", " ", "updates!">>

NoFare(details) ==
    details.fareDetails = Undefined \/ details.fareDetails.total = Undefined

\* The booking-SMS requests whose message was handed to the provider.
SmsSent == {r \in OnRoute("send-booking-sms") : r.calls # <<>>}

\* C10: the booking-SMS body is a single line with no two consecutive
\* whitespace characters and no leading or trailing whitespace; each absent
\* optional field is rendered as its placeholder, and with all of them
\* absent the body is the fixed text and the placeholders alone.
C10_MessageIsOneLine ==
    \A r \in SmsSent :
        LET body == r.calls[1].body
            d == r.body.bookingDetails
        IN  /\ body # <<>>
            /\ \A k \in DOMAIN body : IsWhitespace(body[k]) => body[k] = " "
            /\ \A k \in 1..(Len(body) - 1) :
                   ~(IsWhitespace(body[k]) /\ IsWhitespace(body[k + 1]))
            /\ ~IsWhitespace(body[1])
            /\ ~IsWhitespace(body[Len(body)])
            /\ d.bookingId = Undefined
                   => Contains(body, <<"ID:", " ", "N/A", " ", "From:">>)
            /\ d.pickup = Undefined
                   => Contains(body, <<"From:", " ", "N/A", " ", "To:">>)
            /\ d.dropoff = Undefined
                   => Contains(body, <<"To:", " ", "N/A", " ", "Date:">>)
            /\ d.pickupDate = Undefined
                   => Contains(body, <<"Date:", " ", "N/A", " ">>)
            /\ d.pickupTime = Undefined
                   => Contains(body, <<" ", "N/A", " ", "Fare:">>)
            /\ NoFare(d)
                   => Contains(body, <<"Fare:", " ", "<rupee>", "N/A", " ",
                                       "Driver:">>)
            /\ d.driverName = Undefined
                   => Contains(body, <<"Driver:", " ", "Assigned", " ", "Soon",
                                       " ", "(">>)
            /\ d.driverVehicle = Undefined
                   => Contains(body, <<"(", "N/A", ")", " ", "Download">>)
            /\ d = NoDetails => body = PlaceholderMessage

\* A message was sent for a booking whose pickup has whitespace in and
\* around it and whose driver is absent.
C10_Witness ==
    \E r \in SmsSent :
        /\ r.body.bookingDetails.pickup.t = "string"
        /\ Contains(r.body.bookingDetails.pickup.s, <<"\n", " ">>)
        /\ r.body.bookingDetails.driverName = Undefined
        /\ Contains(r.calls[1].body, <<"a", " ", "b", " ", "To:">>)

\* Two toll requests that differ at most in distance and vehicleType.
SamePlaces(r1, r2) ==
    /\ r1.body.pickup = r2.body.pickup
    /\ r1.body.dropoff = r2.body.dropoff

\* C11: distance and vehicleType do not influence the toll handler: two
\* toll requests with the same pickup and dropoff send the same request to
\* the routing provider and, given the same upstream reply, return the same
\* response.
C11_VehicleNotUsed ==
    \A r1, r2 \in OnRoute("get-tolls") :
        SamePlaces(r1, r2) =>
            /\ r1.calls = r2.calls
            /\ r1.settled = r2.settled =>
                   /\ r1.pc = r2.pc
                   /\ r1.responses = r2.responses

\* Two toll requests with the same places and a different distance and
\* vehicleType got the same upstream reply with prices, and were answered.
C11_Witness ==
    \E r1, r2 \in TollsComputed :
        /\ SamePlaces(r1, r2)
        /\ r1.body.distance # r2.body.distance
        /\ r1.body.vehicleType # r2.body.vehicleType
        /\ r1.settled = r2.settled
        /\ HasPrices(DataOf(r1))
        /\ r1.responses = r2.responses

\* C12: every request on any of the four routes, a request whose
\* phoneNumber is a truthy value that is not a string included, eventually
\* has exactly one response.
C12_EveryRequestAnswered ==
    \A i \in 1..MaxRequests :
        (Len(requests) >= i)
            ~> (/\ Len(requests) >= i
                /\ requests[i].pc = "done"
                /\ Len(requests[i].responses) = 1)

\* C13: the tollAmount of a 200 response is always a finite number: a total
\* that is NaN or an infinity is answered as 0.
C13_TollAmountFinite ==
    \A r \in TollsComputed :
        /\ AnsweredWith(r, 200)
        /\ r.responses[1].body.tollAmount.t = "number"
        /\ calculatedToll(DataOf(r)).k # "fin"
               => r.responses[1].body.tollAmount.cents = 0

\* The request's body passes its route's input validation.
InputValid(r) ==
    CASE r.route = "send-otp" -> Truthy(r.body.phoneNumber)
      [] r.route = "verify-otp" ->
             Truthy(r.body.phoneNumber) /\ Truthy(r.body.otpCode)
      [] r.route = "send-booking-sms" ->
             Truthy(r.body.phoneNumber) /\ Truthy(r.body.bookingDetails)
      [] r.route = "get-tolls" ->
             Truthy(r.body.pickup) /\ Truthy(r.body.dropoff)

\* The provider call of the request failed: it threw, or the routing
\* provider answered with a non-success status.
CallFailed(r) ==
    /\ r.settled # <<>>
    /\ \/ ~r.settled[1].ok
       \/ r.route = "get-tolls" /\ ~r.settled[1].value.ok

\* C14: a request makes at most one outbound provider call, only after its
\* input validation has passed, and never again after a provider failure:
\* a call that throws is followed by the 500 response with no further
\* await, and a non-success upstream status by the forwarded error.
C14_OneCallNoRetry ==
    \A r \in Requests :
        /\ Len(r.calls) <= 1
        /\ r.calls # <<>> => InputValid(r)
        /\ r.settled # <<>> => Len(r.calls) = 1
        /\ CallFailed(r) /\ ~r.settled[1].ok =>
               Len(r.settled) = 1 /\ AnsweredWith(r, 500)
        /\ CallFailed(r) /\ r.pc = "done" =>
               Len(r.responses) = 1 /\ r.responses[1].status >= 400

\* An OTP request whose provider call threw and a toll request whose fetch
\* threw were each answered 500 after their single call.
C14_Witness ==
    /\ \E r \in OnRoute("send-otp") :
           /\ CallFailed(r)
           /\ Len(r.calls) = 1
           /\ AnsweredWith(r, 500)
    /\ \E r \in OnRoute("get-tolls") :
           /\ CallFailed(r)
           /\ ~r.settled[1].ok
           /\ Len(r.calls) = 1
           /\ AnsweredWith(r, 500)

\* The handler of a route run on a body, up to its first await or response.
Begin(route, body) ==
    CASE route = "send-otp" -> SendOtpStart(NewRequest(route, body))
      [] route = "verify-otp" -> VerifyOtpStart(NewRequest(route, body))
      [] route = "send-booking-sms" ->
             SendBookingSmsStart(NewRequest(route, body))
      [] route = "get-tolls" -> GetTollsStart(NewRequest(route, body))

\* A suspended handler run on from its await with the provider's reply.
Continue(r, outcome) ==
    CASE r.route = "send-otp" -> SendOtpSettled(Resumed(r, outcome), outcome)
      [] r.route = "verify-otp" ->
             VerifyOtpSettled(Resumed(r, outcome), outcome)
      [] r.route = "send-booking-sms" ->
             SendBookingSmsSettled(Resumed(r, outcome), outcome)
      [] r.route = "get-tolls" ->
             IF r.pc = "await"
             THEN GetTollsFetched(Resumed(r, outcome), outcome)
             ELSE GetTollsParsed(Resumed(r, outcome), outcome)

\* The handler run with no other request in the server, on a body and the
\* provider's replies to its own calls.
RECURSIVE RunAlone(_, _)
RunAlone(r, outcomes) ==
    IF outcomes = <<>> THEN r
    ELSE RunAlone(Continue(r, Head(outcomes)), Tail(outcomes))

C16_NormalizeIdempotent ==
    \A r \in OnRoute("send-otp") :
        LET x == r.body.phoneNumber
        IN  x.t = "string" /\ formatPhoneNumberForTwilio(x) # Null =>
                /\ r.phoneNumber = formatPhoneNumberForTwilio(x)
                /\ formatPhoneNumberForTwilio(formatPhoneNumberForTwilio(x))
                       = formatPhoneNumberForTwilio(x)

\* A number with a separator and no leading '+' was normalized with the
\* assumed +91, and normalizing the result leaves it as it is.
C16_Witness ==
    \E r \in OnRoute("send-otp") :
        /\ r.body.phoneNumber = Str(<<"9", "-", "1">>)
        /\ r.phoneNumber = Str(<<"+", "9", "1", "9", "1">>)
        /\ formatPhoneNumberForTwilio(r.phoneNumber) = r.phoneNumber
        /\ r.calls # <<>>

====
